---------------------------- MODULE Spec2Model ----------------------------
(***************************************************************************)
(* A model of sovereign_agent.agent.Agent: one Agent instance, its four    *)
(* fields (_identity, _memory_store, _history, _initialized) and its six   *)
(* public operations (init, remember, recall, send, receive, status),      *)
(* composed with the four optional collaborators (capauth, skmemory,       *)
(* skchat, skcomm).  A collaborator is either importable or not for the    *)
(* whole life of the process; every call into a collaborator either        *)
(* returns or raises, chosen nondeterministically per call.                *)
(*                                                                         *)
(* Python exceptions are modelled by their class as the code tells them    *)
(* apart: "ImportError" (caught by `except ImportError`) and "Exception"   *)
(* (any other exception, caught only by `except Exception`).               *)
(***************************************************************************)
EXTENDS Naturals, Sequences, FiniteSets, TLC

\* ------------------------------------------------------------------ bounds

\* How many MemoryStore objects one run may construct.
MaxStores == 2
\* How many profiles init_profile may create in one run.
MaxProfiles == 1
\* The longest list store.search or transport.poll_inbox returns.
MaxItems == 1

\* ------------------------------------------------------------- vocabulary

\* Python's None; every optional value of the model is a record, so that
\* equality with NoneVal is always defined.
NoneVal == [none |-> TRUE]

Collaborators == {"capauth", "skmemory", "skchat", "skcomm"}

AgentNames == {"Bot"}
Homes == {"~/.skcapstone"}
Emails == {<<>>, <<"a", "@", "x">>}
Passphrases == {<<>>, <<"p", "w">>}
\* "bogus" stands for any string EntityType() rejects.
EntityTypeArgs == {"ai", "bogus"}
EntityTypes == {"human", "ai", "organization"}

\* str.lower() on the agent names of the model.
Lower(n) == IF n = "Bot" THEN <<"b", "o", "t">> ELSE <<>>

\* f"{self.name.lower()}@sovereign.local"
DefaultEmail(n) == Lower(n) \o <<"@", "sovereign.local">>

\* The fingerprint of the k-th key generated in this run.
NewFingerprint(k) == <<"F", k>>

\* A profile already on disk before the process started.
OldProfile == [name |-> "Old", fingerprint |-> <<"F", 0>>, email |-> <<"o", "@", "x">>]

Contents == {<<"h", "i">>}
Titles == {<<>>, <<"T">>}
Intensities == {0, 8}
Recipients == {"peer"}

\* content[:60], the default title of a memory (agent.py line 153).
TitleLen == 60
\* content[:200], the content a recall hit shows (agent.py line 184).
ContentLen == 200

\* fingerprint[:16], the fingerprint status shows (agent.py line 289).
FpShown == 16

\* datetime.isoformat(): the ISO-8601 text of a timestamp.
IsoFormat(t) == <<"iso", t>>

\* s[:n]
Take(s, n) == SubSeq(s, 1, IF Len(s) < n THEN Len(s) ELSE n)

VARIABLES
    installed,      \* the collaborators importable in this process
    disk,           \* the profile stored under home/capauth, or NoneVal
    dirs,           \* the directories that exist, among {"home", "memory"}
    name,           \* Agent.name
    home,           \* Agent.home
    identity,       \* Agent._identity
    memory_store,   \* Agent._memory_store
    history,        \* Agent._history
    initialized,    \* Agent._initialized
    stores_built,   \* MemoryStore objects constructed so far
    histories_built,\* ChatHistory objects constructed so far
    profiles_made,  \* profiles init_profile has created so far
    init_called,    \* whether init() was ever called on this agent
    last            \* the last public operation: its outcome and what it called

vars == <<installed, disk, dirs, name, home, identity, memory_store, history,
          initialized, stores_built, histories_built, profiles_made,
          init_called, last>>

\* The part of the state the private helpers read and write.
Heap == [memory_store |-> memory_store, history |-> history, dirs |-> dirs,
         stores_built |-> stores_built, histories_built |-> histories_built]

\* ------------------------------------------------------- private helpers

\* What the memory collaborator does while the store is set up.
MemOutcomes == {"ok", "mkdir_raises", "ctor_raises"}

\* Agent._init_memory: import skmemory, mkdir home/memory, build the backend
\* and the store.  Returns the new heap, the exception raised (if any), the
\* call that raised it and the calls made.
init_memory(h, mem) ==
    IF "skmemory" \notin installed
    THEN [h |-> h, exc |-> "ImportError", at |-> "import skmemory", calls |-> {}]
    ELSE IF mem = "mkdir_raises"
    THEN [h |-> h, exc |-> "Exception", at |-> "mkdir_memory",
          calls |-> {"mkdir_memory"}]
    ELSE LET h1 == [h EXCEPT !.dirs = @ \cup {"home", "memory"}] IN
         IF mem = "ctor_raises"
         THEN [h |-> h1, exc |-> "Exception", at |-> "MemoryStore",
               calls |-> {"mkdir_memory", "MemoryStore"}]
         ELSE [h |-> [h1 EXCEPT !.stores_built = @ + 1,
                                !.memory_store = [store_id |-> h.stores_built + 1]],
               exc |-> "none", at |-> "none",
               calls |-> {"mkdir_memory", "MemoryStore"}]

\* _get_memory without its `except ImportError`: the import failure of
\* _init_memory propagates to the caller.
get_memory_uncaught(h, mem) ==
    IF h.memory_store = NoneVal
    THEN LET r == init_memory(h, mem) IN
         [h |-> r.h, exc |-> r.exc, at |-> r.at, ret |-> r.h.memory_store,
          calls |-> r.calls]
    ELSE [h |-> h, exc |-> "none", at |-> "none", ret |-> h.memory_store,
          calls |-> {}]

\* Agent._get_memory: the memoized store, or a new one; None when skmemory
\* is not importable.
get_memory(h, mem) ==
    IF h.memory_store = NoneVal
    THEN LET r == init_memory(h, mem) IN
         IF r.exc = "ImportError"
         THEN [h |-> r.h, exc |-> "none", at |-> "none", ret |-> NoneVal,
               calls |-> r.calls]
         ELSE [h |-> r.h, exc |-> r.exc, at |-> r.at, ret |-> r.h.memory_store,
               calls |-> r.calls]
    ELSE [h |-> h, exc |-> "none", at |-> "none", ret |-> h.memory_store,
          calls |-> {}]

\* Agent._get_history: the memoized ChatHistory, or a new one built on the
\* memory store; None when the store or skchat.history is unavailable.
get_history(h, mem, histOk) ==
    IF h.history # NoneVal
    THEN [h |-> h, exc |-> "none", at |-> "none", ret |-> h.history, calls |-> {}]
    ELSE LET m == get_memory(h, mem) IN
         IF m.exc # "none"
         THEN [h |-> m.h, exc |-> m.exc, at |-> m.at, ret |-> NoneVal,
               calls |-> m.calls]
         ELSE IF m.ret = NoneVal
         THEN [h |-> m.h, exc |-> "none", at |-> "none", ret |-> NoneVal,
               calls |-> m.calls]
         ELSE IF "skchat" \notin installed
         THEN [h |-> m.h, exc |-> "none", at |-> "none", ret |-> NoneVal,
               calls |-> m.calls]
         ELSE IF ~histOk
         THEN [h |-> m.h, exc |-> "Exception", at |-> "ChatHistory",
               ret |-> NoneVal, calls |-> m.calls \cup {"ChatHistory"}]
         ELSE LET hist == [hist_id |-> m.h.histories_built + 1, store |-> m.ret] IN
              [h |-> [m.h EXCEPT !.history = hist, !.histories_built = @ + 1],
               exc |-> "none", at |-> "none", ret |-> hist,
               calls |-> m.calls \cup {"ChatHistory"}]

\* The sender both send and receive derive:
\* self._identity.get("fingerprint", self.name) if self._identity else self.name
Sender == IF identity # NoneVal THEN identity.fingerprint ELSE <<name>>

\* ---------------------------------------------------------------- state

\* Agent.__init__: no I/O, every handle None, not initialized.
Init ==
    /\ installed \in SUBSET Collaborators
    /\ disk \in {NoneVal, OldProfile}
    /\ dirs = {}
    /\ name \in AgentNames
    /\ home \in Homes
    /\ identity = NoneVal
    /\ memory_store = NoneVal
    /\ history = NoneVal
    /\ initialized = FALSE
    /\ stores_built = 0
    /\ histories_built = 0
    /\ profiles_made = 0
    /\ init_called = FALSE
    /\ last = [op |-> "new", exc |-> "none", at |-> "none", ret |-> NoneVal,
               calls |-> {}, args |-> NoneVal]

\* The inputs of an operation are what its caller passes and what each
\* collaborator call does.  The outcome of a call the operation cannot make
\* in the current state is immaterial, so it is drawn from a single value.
Only(cond, S, d) == IF cond THEN S ELSE {d}

Identity == "capauth" \in installed
Memory == "skmemory" \in installed
Chat == "skchat" \in installed
Comm == "skcomm" \in installed

\* _init_memory called unconditionally (init).
MemChoices == Only(Memory, MemOutcomes, "ok")
\* _init_memory called through _get_memory.
LazyMemChoices == Only(Memory /\ memory_store = NoneVal, MemOutcomes, "ok")
\* _init_memory called through _get_history (send, receive).
HistMemChoices == Only(Chat /\ history = NoneVal, LazyMemChoices, "ok")
\* ChatHistory(store=store) called through _get_history.
HistChoices == Only(Chat /\ Memory /\ history = NoneVal, BOOLEAN, TRUE)

\* Writes the heap a helper returned back into the agent, within the bounds.
SetHeap(h) ==
    /\ h.stores_built <= MaxStores
    /\ memory_store' = h.memory_store
    /\ history' = h.history
    /\ dirs' = h.dirs
    /\ stores_built' = h.stores_built
    /\ histories_built' = h.histories_built

\* ----------------------------------------------------------------- init

\* `if passphrase:` dropped: a profile is created whenever the load raises.
should_create_always(passphrase) == TRUE

\* Line 80, `if passphrase:`: a profile is created only with a passphrase.
should_create(passphrase) == passphrase # <<>>

\* The identity step of Agent.init (the outer try of lines 66-97): import
\* capauth, load the profile under home/capauth, create one when the load
\* raises and a passphrase was given.
init_identity(email, passphrase, entity_type, loadOk, createOk) ==
    LET same == [identity |-> identity, disk |-> disk, made |-> profiles_made] IN
    IF "capauth" \notin installed
    THEN same @@ [exc |-> "none", at |-> "none",
                  outcome |-> "capauth not installed", calls |-> {}]
    ELSE IF disk # NoneVal /\ loadOk
    THEN [identity |-> [name |-> disk.name, fingerprint |-> disk.fingerprint,
                        email |-> disk.email],
          disk |-> disk, made |-> profiles_made, exc |-> "none", at |-> "none",
          outcome |-> "loaded", calls |-> {"load_profile"}]
    ELSE IF should_create(passphrase)
    THEN IF entity_type \notin EntityTypes
         THEN same @@ [exc |-> "Exception", at |-> "EntityType",
                       outcome |-> "none", calls |-> {"load_profile"}]
         ELSE IF ~createOk
         THEN same @@ [exc |-> "Exception", at |-> "init_profile",
                       outcome |-> "none", calls |-> {"load_profile", "init_profile"}]
         ELSE LET profile == [name |-> name,
                              fingerprint |-> NewFingerprint(profiles_made + 1),
                              email |-> IF email # <<>> THEN email
                                        ELSE DefaultEmail(name)] IN
              [identity |-> profile, disk |-> profile, made |-> profiles_made + 1,
               exc |-> "none", at |-> "none", outcome |-> "created",
               calls |-> {"load_profile", "init_profile"}]
    ELSE same @@ [exc |-> "none", at |-> "none",
                  outcome |-> "skipped (no passphrase)", calls |-> {"load_profile"}]

\* Agent.init as a function of the state it starts in and of what the
\* collaborators do: the fields it leaves and what it returns or raises.
init_run(email, passphrase, entity_type, loadOk, createOk, mem) ==
    LET unchanged == [identity |-> identity, disk |-> disk, made |-> profiles_made,
                      initialized |-> initialized]
        h1 == [Heap EXCEPT !.dirs = @ \cup {"home"}]
        i == init_identity(email, passphrase, entity_type, loadOk, createOk)
    IN
    IF i.exc # "none"
    THEN unchanged @@ [h |-> h1, exc |-> i.exc, at |-> i.at, ret |-> NoneVal,
                       calls |-> {"mkdir_home"} \cup i.calls]
    ELSE
    LET m == init_memory(h1, mem)
        calls == {"mkdir_home"} \cup i.calls \cup m.calls
    IN
    IF m.exc = "Exception"
    THEN [identity |-> i.identity, disk |-> i.disk, made |-> i.made,
          initialized |-> initialized, h |-> m.h, exc |-> "Exception",
          at |-> m.at, ret |-> NoneVal, calls |-> calls]
    ELSE [identity |-> i.identity, disk |-> i.disk, made |-> i.made,
          initialized |-> TRUE, h |-> m.h, exc |-> "none", at |-> "none",
          ret |-> [name |-> name, home |-> home, identity |-> i.outcome,
                   memory |-> IF m.exc = "ImportError"
                              THEN "skmemory not installed" ELSE "ready"],
          calls |-> calls]

\* Agent.init(email, passphrase, entity_type)
init ==
    \E passphrase \in Passphrases :
    \E email \in Only(Identity /\ passphrase # <<>>, Emails, <<>>),
       entity_type \in Only(Identity /\ passphrase # <<>>, EntityTypeArgs, "ai"),
       loadOk \in Only(Identity /\ disk # NoneVal, BOOLEAN, FALSE),
       createOk \in Only(Identity /\ passphrase # <<>>, BOOLEAN, TRUE),
       mem \in MemChoices :
      LET r == init_run(email, passphrase, entity_type, loadOk, createOk, mem) IN
      /\ r.made <= MaxProfiles
      /\ SetHeap(r.h)
      /\ identity' = r.identity
      /\ disk' = r.disk
      /\ profiles_made' = r.made
      /\ initialized' = r.initialized
      /\ last' = [op |-> "init", exc |-> r.exc, at |-> r.at, ret |-> r.ret,
                  calls |-> r.calls,
                  args |-> [passphrase |-> passphrase,
                            exists |-> (disk # NoneVal /\ loadOk)]]
      /\ init_called' = TRUE
      /\ UNCHANGED <<installed, name, home>>

\* ------------------------------------------------------ remember, recall

\* Agent.remember(content, title, tags, intensity): the store, then
\* store.snapshot(title or content[:60], ..., emotional iff intensity > 0).
remember_run(content, title, intensity, mem, snapOk) ==
    LET m == get_memory(Heap, mem) IN
    IF m.exc # "none"
    THEN [h |-> m.h, exc |-> m.exc, at |-> m.at, ret |-> NoneVal,
          calls |-> m.calls, args |-> NoneVal]
    ELSE IF m.ret = NoneVal
    THEN [h |-> m.h, exc |-> "none", at |-> "none", ret |-> NoneVal,
          calls |-> m.calls, args |-> NoneVal]
    ELSE LET kw == [store |-> m.ret,
                    title |-> IF title # <<>> THEN title ELSE Take(content, TitleLen),
                    emotional |-> IF intensity > 0 THEN [intensity |-> intensity]
                                  ELSE NoneVal] IN
         IF ~snapOk
         THEN [h |-> m.h, exc |-> "Exception", at |-> "snapshot", ret |-> NoneVal,
               calls |-> m.calls \cup {"snapshot"}, args |-> kw]
         ELSE [h |-> m.h, exc |-> "none", at |-> "none", ret |-> [id |-> "mem"],
               calls |-> m.calls \cup {"snapshot"}, args |-> kw]

remember ==
    \E content \in Contents, title \in Only(Memory, Titles, <<>>),
       intensity \in Only(Memory, Intensities, 0),
       mem \in LazyMemChoices, snapOk \in Only(Memory, BOOLEAN, TRUE) :
      LET r == remember_run(content, title, intensity, mem, snapOk) IN
      /\ SetHeap(r.h)
      /\ last' = [op |-> "remember", exc |-> r.exc, at |-> r.at, ret |-> r.ret,
                  calls |-> r.calls, args |-> r.args]
      /\ UNCHANGED <<installed, disk, name, home, identity, initialized,
                     profiles_made, init_called>>

\* A record store.search returns.
Hit(k) == [id |-> k, title |-> <<"T">>, content |-> <<"h", "i">>, tags |-> <<>>,
           emotional |-> [intensity |-> 0]]

\* Agent.recall(query, limit): the store, then store.search projected to
\* id, title, content[:200], tags, intensity.
recall_run(mem, searchOk, n) ==
    LET m == get_memory(Heap, mem) IN
    IF m.exc # "none"
    THEN [h |-> m.h, exc |-> m.exc, at |-> m.at, ret |-> <<>>,
          calls |-> m.calls, args |-> NoneVal]
    ELSE IF m.ret = NoneVal
    THEN [h |-> m.h, exc |-> "none", at |-> "none", ret |-> <<>>,
          calls |-> m.calls, args |-> NoneVal]
    ELSE IF ~searchOk
    THEN [h |-> m.h, exc |-> "Exception", at |-> "search", ret |-> <<>>,
          calls |-> m.calls \cup {"search"}, args |-> [store |-> m.ret]]
    ELSE [h |-> m.h, exc |-> "none", at |-> "none",
          ret |-> [k \in 1..n |->
                     [id |-> Hit(k).id, title |-> Hit(k).title,
                      content |-> Take(Hit(k).content, ContentLen),
                      tags |-> Hit(k).tags,
                      intensity |-> Hit(k).emotional.intensity]],
          calls |-> m.calls \cup {"search"}, args |-> [store |-> m.ret]]

recall ==
    \E mem \in LazyMemChoices, searchOk \in Only(Memory, BOOLEAN, TRUE),
       n \in Only(Memory, 0..MaxItems, 0) :
      LET r == recall_run(mem, searchOk, n) IN
      /\ SetHeap(r.h)
      /\ last' = [op |-> "recall", exc |-> r.exc, at |-> r.at, ret |-> r.ret,
                  calls |-> r.calls, args |-> r.args]
      /\ UNCHANGED <<installed, disk, name, home, identity, initialized,
                     profiles_made, init_called>>

\* ----------------------------------------------------------------- send

\* What SKComm.from_config, ChatTransport(...) and transport.send_message do:
\* one of them raises, or send_message returns a mapping whose "delivered"
\* entry is True, False or missing.
Deliveries == {"comm_raises", "ctor_raises", "send_raises", "true", "false", "nokey"}

\* Lines 228-237: the delivery attempt inside send's inner try.  Returns the
\* "delivered" entry of the result and the collaborator calls made.
deliver(delivery) ==
    IF "skcomm" \notin installed
    THEN [delivered |-> FALSE, calls |-> {}]
    ELSE IF delivery = "comm_raises"
    THEN [delivered |-> FALSE, calls |-> {"from_config"}]
    ELSE IF delivery = "ctor_raises"
    THEN [delivered |-> FALSE, calls |-> {"from_config", "ChatTransport"}]
    ELSE [delivered |-> (delivery = "true"),
          calls |-> {"from_config", "ChatTransport", "send_message"}]

\* store_message wrapped in a try/except that swallows its failure.
store_message_swallowed(storeOk) == [exc |-> "none", persisted |-> storeOk]

\* history.store_message(msg): whether the message is now in the history.
store_message(storeOk) ==
    IF storeOk THEN [exc |-> "none", persisted |-> TRUE]
    ELSE [exc |-> "Exception", persisted |-> FALSE]

\* The import of skchat.models removed from the head of send's try block.
import_chat_models_unguarded == TRUE

\* Line 213, `from skchat.models import ChatMessage`: whether it succeeds.
import_chat_models == "skchat" \in installed

\* Agent.send(recipient, content, thread_id).  `history` is the handle
\* _get_history returned and `persisted` whether store_message completed.
send_run(recipient, mem, histOk, msgOk, storeOk, delivery) ==
    LET result == [recipient |-> recipient, stored |-> FALSE] IN
    IF ~import_chat_models
    THEN [h |-> Heap, exc |-> "none", at |-> "none",
          ret |-> result @@ [error |-> "skchat not installed"], calls |-> {},
          history |-> NoneVal, persisted |-> FALSE]
    ELSE IF ~msgOk
    THEN [h |-> Heap, exc |-> "Exception", at |-> "ChatMessage", ret |-> NoneVal,
          calls |-> {"ChatMessage"}, history |-> NoneVal, persisted |-> FALSE]
    ELSE
    LET g == get_history(Heap, mem, histOk) IN
    IF g.exc # "none"
    THEN [h |-> g.h, exc |-> g.exc, at |-> g.at, ret |-> NoneVal,
          calls |-> {"ChatMessage"} \cup g.calls,
          history |-> NoneVal, persisted |-> FALSE]
    ELSE
    LET st == IF g.ret # NoneVal THEN store_message(storeOk)
              ELSE [exc |-> "none", persisted |-> FALSE]
        calls == {"ChatMessage"} \cup g.calls
                 \cup (IF g.ret # NoneVal THEN {"store_message"} ELSE {})
    IN
    IF st.exc # "none"
    THEN [h |-> g.h, exc |-> st.exc, at |-> "store_message", ret |-> NoneVal,
          calls |-> calls, history |-> g.ret, persisted |-> st.persisted]
    ELSE
    LET d == deliver(delivery) IN
        [h |-> g.h, exc |-> "none", at |-> "none",
         ret |-> [result EXCEPT !.stored = (g.ret # NoneVal)]
                 @@ [delivered |-> d.delivered],
         calls |-> calls \cup d.calls,
         history |-> g.ret, persisted |-> st.persisted]

send ==
    \E recipient \in Recipients, mem \in HistMemChoices, histOk \in HistChoices,
       msgOk \in Only(Chat, BOOLEAN, TRUE),
       storeOk \in Only(Chat /\ Memory, BOOLEAN, TRUE),
       delivery \in Only(Chat /\ Comm, Deliveries, "false") :
      LET r == send_run(recipient, mem, histOk, msgOk, storeOk, delivery) IN
      /\ SetHeap(r.h)
      /\ last' = [op |-> "send", exc |-> r.exc, at |-> r.at, ret |-> r.ret,
                  calls |-> r.calls,
                  args |-> [sender |-> <<"capauth:">> \o Sender,
                            delivery |-> delivery, history |-> r.history,
                            persisted |-> r.persisted]]
      /\ UNCHANGED <<installed, disk, name, home, identity, initialized,
                     profiles_made, init_called>>

\* -------------------------------------------------------------- receive

\* What SKComm.from_config, ChatTransport(...) and transport.poll_inbox do.
Polls == {"comm_raises", "ctor_raises", "poll_raises", "ok"}

\* A message poll_inbox returns.
Msg(k) == [sender |-> <<"capauth:", "peer">>, content |-> <<"h", "i">>,
           thread_id |-> NoneVal, timestamp |-> k]

\* Agent.receive(): both imports, the history, then the transport's inbox
\* projected to sender, content, thread_id and timestamp.isoformat().
receive_run(mem, histOk, poll, n) ==
    IF "skchat" \notin installed \/ "skcomm" \notin installed
    THEN [h |-> Heap, exc |-> "none", at |-> "none", ret |-> <<>>, calls |-> {}]
    ELSE
    LET g == get_history(Heap, mem, histOk) IN
    IF g.exc # "none"
    THEN [h |-> g.h, exc |-> g.exc, at |-> g.at, ret |-> <<>>,
          calls |-> g.calls]
    ELSE IF g.ret = NoneVal
    THEN [h |-> g.h, exc |-> "none", at |-> "none", ret |-> <<>>, calls |-> g.calls]
    ELSE IF poll = "comm_raises"
    THEN [h |-> g.h, exc |-> "Exception", at |-> "from_config", ret |-> <<>>,
          calls |-> g.calls \cup {"from_config"}]
    ELSE IF poll = "ctor_raises"
    THEN [h |-> g.h, exc |-> "Exception", at |-> "ChatTransport", ret |-> <<>>,
          calls |-> g.calls \cup {"from_config", "ChatTransport"}]
    ELSE IF poll = "poll_raises"
    THEN [h |-> g.h, exc |-> "Exception", at |-> "poll_inbox", ret |-> <<>>,
          calls |-> g.calls \cup {"from_config", "ChatTransport", "poll_inbox"}]
    ELSE [h |-> g.h, exc |-> "none", at |-> "none",
          ret |-> [k \in 1..n |->
                     [sender |-> Msg(k).sender, content |-> Msg(k).content,
                      thread_id |-> Msg(k).thread_id,
                      timestamp |-> IsoFormat(Msg(k).timestamp)]],
          calls |-> g.calls \cup {"from_config", "ChatTransport", "poll_inbox"}]

receive ==
    \E mem \in HistMemChoices, histOk \in HistChoices,
       poll \in Only(Chat /\ Comm, Polls, "ok"),
       n \in Only(Chat /\ Comm, 0..MaxItems, 0) :
      LET r == receive_run(mem, histOk, poll, n) IN
      /\ SetHeap(r.h)
      /\ last' = [op |-> "receive", exc |-> r.exc, at |-> r.at, ret |-> r.ret,
                  calls |-> r.calls, args |-> NoneVal]
      /\ UNCHANGED <<installed, disk, name, home, identity, initialized,
                     profiles_made, init_called>>

\* --------------------------------------------------------------- status

\* The Agent.identity property.
identity_property == identity

\* The Agent.fingerprint property: the record's fingerprint, or "".
fingerprint == IF identity # NoneVal THEN identity.fingerprint ELSE <<>>

\* The identity entry taken from the initialized flag instead of the record.
status_identity_by_flag == IF initialized THEN "active" ELSE "none"

\* Lines 288-292: the identity entry of status(), from `if self._identity:`.
status_identity == IF identity # NoneVal THEN "active" ELSE "none"

\* Agent.status(): the fields, the identity entry, then the memory entry
\* from _get_memory and a list_memories(limit=1) probe.
status_run(mem, listOk) ==
    LET s0 == [name |-> name, home |-> home, initialized |-> initialized,
               version |-> "0.1.0"]
        s1 == IF identity # NoneVal
              THEN s0 @@ [fingerprint |-> Take(identity.fingerprint, FpShown)
                                          \o <<"...">>,
                          identity |-> status_identity]
              ELSE s0 @@ [identity |-> status_identity]
        m == get_memory(Heap, mem)
    IN
    IF m.exc # "none"
    THEN [h |-> m.h, exc |-> m.exc, at |-> m.at, ret |-> NoneVal,
          calls |-> m.calls]
    ELSE IF m.ret = NoneVal
    THEN [h |-> m.h, exc |-> "none", at |-> "none",
          ret |-> s1 @@ [memory |-> "unavailable"], calls |-> m.calls]
    ELSE [h |-> m.h, exc |-> "none", at |-> "none",
          ret |-> s1 @@ [memory |-> IF listOk THEN "active" ELSE "error"],
          calls |-> m.calls \cup {"list_memories"}]

status ==
    \E mem \in LazyMemChoices, listOk \in Only(Memory, BOOLEAN, TRUE) :
      LET r == status_run(mem, listOk) IN
      /\ SetHeap(r.h)
      /\ last' = [op |-> "status", exc |-> r.exc, at |-> r.at, ret |-> r.ret,
                  calls |-> r.calls, args |-> NoneVal]
      /\ UNCHANGED <<installed, disk, name, home, identity, initialized,
                     profiles_made, init_called>>

\* ----------------------------------------------------------------- next

Next ==
    \/ init
    \/ remember
    \/ recall
    \/ send
    \/ receive
    \/ status

Spec == Init /\ [][Next]_vars

\* --------------------------------------------------------------- claims

\* The collaborator a raising call belongs to.
Owner(at) ==
    CASE at \in {"EntityType", "init_profile"} -> "capauth"
      [] at \in {"mkdir_memory", "MemoryStore", "snapshot", "search"} -> "skmemory"
      [] at \in {"ChatMessage", "ChatHistory", "store_message", "ChatTransport",
                 "poll_inbox"} -> "skchat"
      [] at = "from_config" -> "skcomm"
      [] OTHER -> "none"

\* C1: over any sequence of operations the memory store is constructed at
\* most once and the history handle is constructed at most once.
C1_HandlesBuiltOnce == stores_built <= 1 /\ histories_built <= 1

\* C2: every call to init() returns and leaves the agent initialized,
\* whichever of load, create or the memory-store setup fails or is
\* unavailable.
C2_InitAlwaysInitializes ==
    last.op = "init" => (last.exc = "none" /\ initialized)

\* C3: once the identity record is set, no later operation changes it or
\* resets it to None.
C3_IdentityImmutable == [][identity # NoneVal => identity' = identity]_vars

\* C4: status() never raises, whatever the memory collaborator does, and
\* its 'memory' entry is one of 'active', 'error', 'unavailable'.
C4_StatusNeverRaises ==
    last.op = "status" =>
        /\ last.exc = "none"
        /\ last.ret.memory \in {"active", "error", "unavailable"}

\* C5: a call to status() leaves name, home, the identity record, the memory
\* handle, the history handle and the initialized flag unchanged and creates
\* no directory.
C5_StatusPureRead ==
    [][last'.op = "status" =>
          /\ name' = name /\ home' = home /\ identity' = identity
          /\ memory_store' = memory_store /\ history' = history
          /\ initialized' = initialized /\ dirs' = dirs]_vars

\* C6: a send() that returns reports stored=true exactly when a history
\* handle was obtained and store_message completed, whatever the delivery
\* attempt did.
C6_StoredIffPersisted ==
    (last.op = "send" /\ last.exc = "none") =>
        (last.ret.stored <=> (last.args.history # NoneVal /\ last.args.persisted))

\* A message persisted and reported stored although its delivery raised.
C6_Witness ==
    /\ last.op = "send" /\ last.exc = "none"
    /\ last.args.delivery = "send_raises" /\ "send_message" \in last.calls
    /\ last.args.persisted /\ last.ret.stored /\ ~last.ret.delivered

\* The calls send() makes before it has a message and a history handle to
\* persist with; C7 is about what follows them.
BeforePersistence == {"ChatMessage", "mkdir_memory", "MemoryStore", "ChatHistory"}

\* C7: with skchat importable, send() never raises; any failure, of the
\* delivery or of the local persistence before it, gives delivered=false, and
\* delivered is true only when the transport reported delivered=true.
C7_SendSwallowsFailures ==
    (last.op = "send" /\ Chat /\ last.at \notin BeforePersistence) =>
        /\ last.exc = "none"
        /\ last.ret.delivered <=> (Comm /\ last.args.delivery = "true")

\* C8: with skchat unavailable, send() returns an 'error' entry, stored=false
\* and no 'delivered' entry; it calls neither store_message nor send_message
\* and builds no history handle.
C8_NoChatNoAttempt ==
    (last.op = "send" /\ ~Chat) =>
        /\ last.exc = "none"
        /\ "error" \in DOMAIN last.ret
        /\ last.ret.stored = FALSE
        /\ "delivered" \notin DOMAIN last.ret
        /\ last.calls \cap {"store_message", "send_message", "ChatHistory"} = {}
        /\ history = NoneVal /\ histories_built = 0

\* send() without skchat on an agent whose memory store exists, so that a
\* history could have been built on it.
C8_Witness ==
    /\ last.op = "send" /\ ~Chat /\ Comm
    /\ memory_store # NoneVal
    /\ "error" \in DOMAIN last.ret

\* C9: no operation raises because a collaborator is absent: an operation
\* raises only what a call into an installed collaborator raised, and with
\* the collaborator absent init() reports 'capauth not installed' /
\* 'skmemory not installed', remember() returns None, recall() and receive()
\* return [], send() returns an in-band result and status() reports memory
\* 'unavailable'.
C9_AbsenceNeverRaises ==
    /\ last.exc # "none" => (last.exc = "Exception" /\ Owner(last.at) \in installed)
    /\ (last.op = "init" /\ last.exc = "none") =>
          /\ ~Identity => last.ret.identity = "capauth not installed"
          /\ ~Memory => last.ret.memory = "skmemory not installed"
    /\ (last.op = "init" /\ ~Identity /\ ~Memory) => last.exc = "none"
    /\ (last.op = "remember" /\ ~Memory) => (last.exc = "none" /\ last.ret = NoneVal)
    /\ (last.op = "recall" /\ ~Memory) => (last.exc = "none" /\ last.ret = <<>>)
    /\ (last.op = "receive" /\ (~Memory \/ ~Chat \/ ~Comm)) =>
          (last.exc = "none" /\ last.ret = <<>>)
    /\ (last.op = "send" /\ ~Chat) =>
          (last.exc = "none" /\ last.ret.error = "skchat not installed")
    /\ (last.op = "send" /\ Chat /\ last.exc = "none") =>
          /\ ~Memory => last.ret.stored = FALSE
          /\ ~Comm => last.ret.delivered = FALSE
    /\ (last.op = "status" /\ ~Memory) =>
          (last.exc = "none" /\ last.ret.memory = "unavailable")

\* receive() on an initialized agent whose memory collaborator alone is
\* absent.
C9_Witness ==
    /\ installed = Collaborators \ {"skmemory"}
    /\ initialized
    /\ last.op = "receive" /\ last.exc = "none"

C11_IdentityStatus ==
    /\ ~init_called =>
          /\ identity_property = NoneVal
          /\ fingerprint = <<>>
          /\ ~initialized
          /\ (last.op = "status" /\ last.exc = "none") =>
                (last.ret.identity = "none" /\ last.ret.initialized = FALSE)
    /\ (last.op = "status" /\ last.exc = "none") =>
          (last.ret.identity = "active" <=> identity # NoneVal)

\* status() on an agent that built its store and its history through send()
\* and on which init() was never called.
C11_Witness ==
    /\ ~init_called
    /\ history # NoneVal
    /\ last.op = "status" /\ last.exc = "none"
    /\ last.ret.identity = "none"

\* C12: whenever the history handle is set, the memory handle is set and the
\* store the history was built on is the agent's current memory handle, the
\* one remember() and recall() use.
C12_HistoryOnCurrentStore ==
    history # NoneVal =>
        (memory_store # NoneVal /\ history.store = memory_store)

=============================================================================
